---- MODULE Spec2Model ----
(***************************************************************************)
(* A model of the Peer wrapper of src/index.js: one Peer object, the       *)
(* RTCPeerConnection it binds in create(), the emitter / emitter-queue     *)
(* mixins it publishes through and the data-channel wrapper it binds.      *)
(*                                                                         *)
(* Every public method and every transport callback is one action.  The   *)
(* transport (RTCPeerConnection) is the environment: it answers a          *)
(* createOffer / createAnswer request later, with the success or the error *)
(* callback, and raises its signals (candidates, gathering state, remote   *)
(* data channel, remote stream) at any time after create().                *)
(*                                                                         *)
(* emit / queue / on come from the components 'emitter' and                *)
(* 'emitter-queue', and channel() from ./lib/channel; none of them is in   *)
(* src/, so they are modelled from sections 4.4, 4.5, 6 and 9 of the       *)
(* specification.                                                          *)
(***************************************************************************)
EXTENDS Integers, Sequences, FiniteSets, TLC

VARIABLES
  connection,        \* this.connection: "null" until create(), then "bound"
  codecs,            \* this.codecs: the registered stages, in order
  channel,           \* this.channel: 0 (undefined) or the id of the binding
  bindings,          \* number of bindings channel() has created
  ondatachannel,     \* connection.ondatachannel is installed
  dataChannels,      \* number of connection.createDataChannel calls
  pending,           \* createOffer/createAnswer requests not yet answered
  requests,          \* number of createOffer/createAnswer requests made
  localDescription,  \* last description given to setLocalDescription
  remoteDescription, \* last description given to setRemoteDescription
  localStreams,      \* number of connection.addStream calls
  remoteCandidates,  \* number of connection.addIceCandidate calls
  gathering,         \* end-of-gathering signals the transport has raised
  emitted,           \* per event kind, the payloads emitted so far
  pendingQueue,      \* per event kind, the payloads retained for replay
  subscribed,        \* per observer, the kind it listens to, or "none"
  received,          \* per observer, the payloads its handler was called with
  replayed,          \* per observer, how many of them on() itself replayed
  delivered,         \* messages written to a bound data channel
  completions,       \* descriptions handed to the caller's callback fn
  thrown,            \* faults thrown to the caller or out of a callback
  log,               \* the negotiation's observable steps, in order
  steps              \* operations and callbacks so far

vars == <<connection, codecs, channel, bindings, ondatachannel, dataChannels,
          pending, requests, localDescription, remoteDescription,
          localStreams, remoteCandidates, gathering, emitted, pendingQueue,
          subscribed, received, replayed, delivered, completions, thrown, log,
          steps>>

(***************************************************************************)
(* Bounds of the model.                                                    *)
(***************************************************************************)
MaxSteps == 5
MaxStages == 2
MaxCalls == 2

(***************************************************************************)
(* Inputs.                                                                 *)
(***************************************************************************)
Subs == {"s1", "s2"}
Stages == {"addBandwidthCap", "preferCodecOpus", "rejectBandwidth"}
TransportSdp == {<<"m=audio">>, <<"m=audio", "opus">>}
Candidates == {"c1", "c2"}
Messages == {"m1", "m2"}
Causes == {"e1", "e2"}
NoArg == "-"

\* The kinds the source passes to that.queue(); the others go to that.emit().
QueuedKinds == {"ready", "offer", "answer", "local stream", "channel message"}

Kinds == {"create", "before offer", "before answer", "offer", "answer",
          "candidate", "local stream", "remote stream", "channel message",
          "ready", "error"}

\* The kinds the observers of the model subscribe to.
ObservedKinds == QueuedKinds \cup {"candidate", "error"}

NoDescription == [type |-> "none", sdp |-> <<>>]
RemoteDescriptions == {[type |-> "offer", sdp |-> <<"m=audio">>],
                       [type |-> "answer", sdp |-> <<"m=audio">>]}

NullCandidate == "null"
\* The arguments of ice(): a candidate or none.
IceInputs == {"c1", NullCandidate}
GatheringSignals == {[target |-> TRUE, state |-> "gathering"],
                     [target |-> TRUE, state |-> "complete"],
                     [target |-> FALSE, state |-> "complete"]}

peerVars == <<connection, codecs>>
bindVars == <<channel, bindings, delivered>>
transportVars == <<ondatachannel, dataChannels, pending, requests,
                   localDescription, remoteDescription, localStreams,
                   remoteCandidates, gathering>>
busVars == <<emitted, pendingQueue, subscribed, received, replayed>>

(***************************************************************************)
(* The SDP pipeline: Peer.prototype.local.                                 *)
(***************************************************************************)

\* The stages a caller registers in this model.  Each is a function from
\* SDP text (a sequence of lines) to SDP text, or raises.
addBandwidthCap(sdp) == <<"b=AS">> \o sdp

preferCodecOpus(sdp) == <<"opus">> \o SelectSeq(sdp, LAMBDA x : x # "opus")

Raises(f, sdp) ==
  f = "rejectBandwidth" /\ \E i \in 1..Len(sdp) : sdp[i] = "b=AS"

ApplyStage(f, sdp) ==
  CASE f = "addBandwidthCap" -> addBandwidthCap(sdp)
    [] f = "preferCodecOpus" -> preferCodecOpus(sdp)
    [] OTHER -> sdp

\* The loop of local(): for (i = 0; i < l; i++) sdp = this.codecs[i](sdp),
\* from stage i on (1-based here).  A stage that raises ends the loop and
\* the call: the result is marked not ok.
RECURSIVE RunStages(_, _, _)
RunStages(stages, i, sdp) ==
  IF i > Len(stages) THEN [ok |-> TRUE, sdp |-> sdp]
  ELSE IF Raises(stages[i], sdp) THEN [ok |-> FALSE, sdp |-> sdp]
  ELSE RunStages(stages, i + 1, ApplyStage(stages[i], sdp))

\* A loop that starts one stage too late.
localSkipsFirst(stages, session) ==
  LET r == RunStages(stages, 2, session.sdp)
  IN  [ok |-> r.ok,
       session |-> IF r.ok THEN [session EXCEPT !.sdp = r.sdp] ELSE session]

\* A loop that runs the stages last to first.
RECURSIVE RunBackwards(_, _, _)
RunBackwards(stages, i, sdp) ==
  IF i < 1 THEN [ok |-> TRUE, sdp |-> sdp]
  ELSE IF Raises(stages[i], sdp) THEN [ok |-> FALSE, sdp |-> sdp]
  ELSE RunBackwards(stages, i - 1, ApplyStage(stages[i], sdp))

localBackwards(stages, session) ==
  LET r == RunBackwards(stages, Len(stages), session.sdp)
  IN  [ok |-> r.ok,
       session |-> IF r.ok THEN [session EXCEPT !.sdp = r.sdp] ELSE session]

\* local(session): the session with its sdp replaced by the pipeline's
\* output, which is then given to setLocalDescription; not ok when a stage
\* raised, and then session.sdp was not assigned.
local(stages, session) ==
  LET r == RunStages(stages, 1, session.sdp)
  IN  [ok |-> r.ok,
       session |-> IF r.ok THEN [session EXCEPT !.sdp = r.sdp] ELSE session]

(***************************************************************************)
(* The event bus: emit (emitter), queue and on (emitter-queue).            *)
(***************************************************************************)

\* emit(kind, payload): every attached handler of the kind is called now.
emit(kind, payload) ==
  /\ emitted' = [emitted EXCEPT ![kind] = Append(@, payload)]
  /\ received' = [s \in Subs |->
                    IF subscribed[s] = kind THEN Append(received[s], payload)
                    ELSE received[s]]
  /\ UNCHANGED <<subscribed, replayed>>

\* queue(kind, payload): emitted now, and retained for late subscribers.
queue(kind, payload) ==
  /\ emit(kind, payload)
  /\ pendingQueue' = [pendingQueue EXCEPT ![kind] = Append(@, payload)]

\* on(kind, handler) by observer s: attach, and replay the kind's backlog.
on(s, kind) ==
  /\ subscribed' = [subscribed EXCEPT ![s] = kind]
  /\ received' = [received EXCEPT ![s] = pendingQueue[kind]]
  /\ replayed' = [replayed EXCEPT ![s] = Len(pendingQueue[kind])]
  /\ UNCHANGED <<emitted, pendingQueue>>

(***************************************************************************)
(* The data-channel binding: channel(raw, peer) of ./lib/channel.          *)
(***************************************************************************)

\* The messages binding b takes from a backlog.  Each write to a channel is
\* recorded with how it came about: replayed at binding time, or live.
Replay(b, backlog) ==
  [i \in 1..Len(backlog) |-> [ch |-> b, msg |-> backlog[i], via |-> "replay"]]

\* A new binding wraps the raw channel and listens to 'channel message':
\* the messages queued so far are written to it.
bindChannel ==
  /\ bindings' = bindings + 1
  /\ channel' = bindings + 1
  /\ delivered' = delivered \o Replay(bindings + 1, pendingQueue["channel message"])

Step == steps < MaxSteps /\ steps' = steps + 1

Throw(op, err) == thrown' = Append(thrown, [op |-> op, err |-> err])

Logged(entries) == log' = log \o entries

Init ==
  /\ connection = "null"
  /\ codecs = <<>>
  /\ channel = 0
  /\ bindings = 0
  /\ ondatachannel = FALSE
  /\ dataChannels = 0
  /\ pending = {}
  /\ requests = 0
  /\ localDescription = NoDescription
  /\ remoteDescription = NoDescription
  /\ localStreams = 0
  /\ remoteCandidates = 0
  /\ gathering = 0
  /\ emitted = [k \in Kinds |-> <<>>]
  /\ pendingQueue = [k \in Kinds |-> <<>>]
  /\ subscribed = [s \in Subs |-> "none"]
  /\ received = [s \in Subs |-> <<>>]
  /\ replayed = [s \in Subs |-> 0]
  /\ delivered = <<>>
  /\ completions = <<>>
  /\ thrown = <<>>
  /\ log = <<>>
  /\ steps = 0

(***************************************************************************)
(* The caller's operations.                                                *)
(***************************************************************************)

\* create(): binds a new RTCPeerConnection, installs the callbacks and
\* emits 'create'.  The model holds one connection: create() is called once.
Create ==
  /\ Step
  /\ connection = "null"
  /\ connection' = "bound"
  /\ emit("create", NoArg)
  /\ UNCHANGED <<codecs, bindVars, transportVars, pendingQueue, completions,
                 thrown, log>>

\* stream() that emits 'local stream' without queueing it.
StreamEmitsOnly ==
  /\ Step
  /\ IF connection = "null"
     THEN /\ Throw("stream", "TypeError")
          /\ UNCHANGED <<localStreams, busVars>>
     ELSE /\ localStreams' = localStreams + 1
          /\ emit("local stream", "stream")
          /\ UNCHANGED <<pendingQueue, thrown>>
  /\ UNCHANGED <<peerVars, bindVars, ondatachannel, dataChannels, pending,
                 requests, localDescription, remoteDescription,
                 remoteCandidates, gathering, completions, log>>

\* stream(stream): this.connection.addStream throws on a null connection.
Stream ==
  /\ Step
  /\ IF connection = "null"
     THEN /\ Throw("stream", "TypeError")
          /\ UNCHANGED <<localStreams, busVars>>
     ELSE /\ localStreams' = localStreams + 1
          /\ queue("local stream", "stream")
          /\ UNCHANGED thrown
  /\ UNCHANGED <<peerVars, bindVars, ondatachannel, dataChannels, pending,
                 requests, localDescription, remoteDescription,
                 remoteCandidates, gathering, completions, log>>

\* ice(candidate): a null candidate is ignored before the connection is read.
Ice(candidate) ==
  /\ Step
  /\ IF candidate = NullCandidate
     THEN UNCHANGED <<remoteCandidates, thrown>>
     ELSE IF connection = "null"
     THEN Throw("ice", "TypeError") /\ UNCHANGED remoteCandidates
     ELSE remoteCandidates' = remoteCandidates + 1 /\ UNCHANGED thrown
  /\ UNCHANGED <<peerVars, bindVars, ondatachannel, dataChannels, pending,
                 requests, localDescription, remoteDescription, localStreams,
                 gathering, busVars, completions, log>>

\* remote() that runs the stages over the received description, as local()
\* does over the descriptions this side produces.
RemoteTransforms(session) ==
  /\ Step
  /\ IF connection = "null"
     THEN Throw("remote", "TypeError") /\ UNCHANGED <<remoteDescription, log>>
     ELSE /\ remoteDescription' = local(codecs, session).session
          /\ Logged(<<[step |-> "remote " \o session.type, req |-> 0]>>)
          /\ UNCHANGED thrown
  /\ UNCHANGED <<peerVars, bindVars, ondatachannel, dataChannels, pending,
                 requests, localDescription, localStreams, remoteCandidates,
                 gathering, busVars, completions>>

\* remote(session): commits the description as it is.
Remote(session) ==
  /\ Step
  /\ IF connection = "null"
     THEN Throw("remote", "TypeError") /\ UNCHANGED <<remoteDescription, log>>
     ELSE /\ remoteDescription' = session
          /\ Logged(<<[step |-> "remote " \o session.type, req |-> 0]>>)
          /\ UNCHANGED thrown
  /\ UNCHANGED <<peerVars, bindVars, ondatachannel, dataChannels, pending,
                 requests, localDescription, localStreams, remoteCandidates,
                 gathering, busVars, completions>>

\* session(fn, opts, type): emits 'before <type>' and asks the transport for
\* the description; the callbacks run later (Success, Failure).
session(fn, type, before) ==
  /\ emit("before " \o type, NoArg)
  /\ pending' = pending \cup {[id |-> requests + 1, type |-> type, fn |-> fn]}
  /\ requests' = requests + 1
  /\ Logged(before \o <<[step |-> "before " \o type, req |-> requests + 1],
                        [step |-> "create " \o type, req |-> requests + 1]>>)
  /\ UNCHANGED pendingQueue

\* offer(fn): creates the 'master' data channel, binds it, then session().
Offer(fn) ==
  /\ Step
  /\ requests < MaxCalls
  /\ IF connection = "null"
     THEN /\ Throw("offer", "TypeError")
          /\ UNCHANGED <<bindVars, dataChannels, pending, requests, busVars,
                         log>>
     ELSE /\ dataChannels' = dataChannels + 1
          /\ bindChannel
          /\ session(fn, "offer",
                     <<[step |-> "createDataChannel", req |-> requests + 1],
                       [step |-> "channel", req |-> requests + 1]>>)
          /\ UNCHANGED thrown
  /\ UNCHANGED <<peerVars, ondatachannel, localDescription, remoteDescription,
                 localStreams, remoteCandidates, gathering, completions>>

\* answer() that creates a data channel of its own, as offer() does.
AnswerCreatesChannel(fn) ==
  /\ Step
  /\ requests < MaxCalls
  /\ IF connection = "null"
     THEN /\ Throw("answer", "TypeError")
          /\ UNCHANGED <<bindVars, dataChannels, ondatachannel, pending,
                         requests, busVars, log>>
     ELSE /\ dataChannels' = dataChannels + 1
          /\ bindChannel
          /\ ondatachannel' = TRUE
          /\ session(fn, "answer",
                     <<[step |-> "createDataChannel", req |-> requests + 1],
                       [step |-> "channel", req |-> requests + 1],
                       [step |-> "ondatachannel", req |-> requests + 1]>>)
          /\ UNCHANGED thrown
  /\ UNCHANGED <<peerVars, localDescription, remoteDescription, localStreams,
                 remoteCandidates, gathering, completions>>

\* answer(fn): installs connection.ondatachannel, then session().
Answer(fn) ==
  /\ Step
  /\ requests < MaxCalls
  /\ IF connection = "null"
     THEN /\ Throw("answer", "TypeError")
          /\ UNCHANGED <<ondatachannel, pending, requests, busVars, log>>
     ELSE /\ ondatachannel' = TRUE
          /\ session(fn, "answer",
                     <<[step |-> "ondatachannel", req |-> requests + 1]>>)
          /\ UNCHANGED thrown
  /\ UNCHANGED <<peerVars, bindVars, dataChannels, localDescription,
                 remoteDescription, localStreams, remoteCandidates, gathering,
                 completions>>

\* codec(fn): appends the stage.
Codec(f) ==
  /\ Step
  /\ Len(codecs) < MaxStages
  /\ codecs' = Append(codecs, f)
  /\ Logged(<<[step |-> "codec", req |-> 0]>>)
  /\ UNCHANGED <<connection, bindVars, transportVars, busVars, completions,
                 thrown>>

\* send() that emits 'channel message' without queueing it.
SendEmitsOnly(msg) ==
  /\ Step
  /\ emit("channel message", msg)
  /\ delivered' = delivered \o [b \in 1..bindings |->
                                  [ch |-> b, msg |-> msg, via |-> "live"]]
  /\ UNCHANGED <<peerVars, channel, bindings, transportVars, pendingQueue,
                 completions, thrown, log>>

\* send(msg): queue('channel message', msg); every binding made so far
\* listens to the kind and writes the message to its channel.
Send(msg) ==
  /\ Step
  /\ queue("channel message", msg)
  /\ delivered' = delivered \o [b \in 1..bindings |->
                                  [ch |-> b, msg |-> msg, via |-> "live"]]
  /\ UNCHANGED <<peerVars, channel, bindings, transportVars, completions,
                 thrown, log>>

\* An observer subscribes: peer.on(kind, handler).  Each observer of the
\* model subscribes once, the second after the first.
On(s, kind) ==
  /\ Step
  /\ subscribed[s] = "none"
  /\ s = "s2" => subscribed["s1"] # "none"
  /\ on(s, kind)
  /\ UNCHANGED <<peerVars, bindVars, transportVars, completions, thrown, log>>

(***************************************************************************)
(* The transport's callbacks, installed by create(), answer() and          *)
(* session().                                                              *)
(***************************************************************************)

\* Handlers that emit 'ready' without queueing it.
gatheringCompleteEmitsOnly ==
  /\ emit("ready", NoArg)
  /\ UNCHANGED pendingQueue

\* The end of gathering as both handlers report it: that.queue('ready').
gatheringComplete == queue("ready", NoArg)

\* What the transport's signals mean: the legacy null candidate, or a state
\* change whose target reports 'complete', is the end of gathering.
EndOfCandidates(candidate) == candidate = NullCandidate
EndOfGathering(event) == event.target /\ event.state = "complete"

\* A handler that relays a candidate only the first time it is announced.
onicecandidateDropsDuplicates(candidate) ==
  IF candidate = NullCandidate THEN gatheringComplete
  ELSE IF \E i \in 1..Len(emitted["candidate"]) :
            emitted["candidate"][i] = candidate
  THEN UNCHANGED busVars
  ELSE emit("candidate", candidate) /\ UNCHANGED pendingQueue

\* The onicecandidate handler: relay the candidate, or report the end.
onicecandidate(candidate) ==
  IF candidate # NullCandidate
  THEN emit("candidate", candidate) /\ UNCHANGED pendingQueue
  ELSE gatheringComplete

\* A handler that reports the end of gathering on any state change.
ongatheringchangeAnyState(event) == gatheringComplete

\* The ongatheringchange handler: report the end on 'complete' only.
ongatheringchange(event) ==
  IF event.target /\ event.state = "complete"
  THEN gatheringComplete
  ELSE UNCHANGED busVars

\* connection.onicecandidate(event).
OnIceCandidate(candidate) ==
  /\ Step
  /\ connection = "bound"
  /\ onicecandidate(candidate)
  /\ gathering' = gathering + (IF EndOfCandidates(candidate) THEN 1 ELSE 0)
  /\ UNCHANGED <<peerVars, bindVars, ondatachannel, dataChannels, pending,
                 requests, localDescription, remoteDescription, localStreams,
                 remoteCandidates, completions, thrown, log>>

\* connection.ongatheringchange(event).
OnGatheringChange(event) ==
  /\ Step
  /\ connection = "bound"
  /\ ongatheringchange(event)
  /\ gathering' = gathering + (IF EndOfGathering(event) THEN 1 ELSE 0)
  /\ UNCHANGED <<peerVars, bindVars, ondatachannel, dataChannels, pending,
                 requests, localDescription, remoteDescription, localStreams,
                 remoteCandidates, completions, thrown, log>>

\* connection.onaddstream(event).
OnAddStream ==
  /\ Step
  /\ connection = "bound"
  /\ emit("remote stream", "remote")
  /\ UNCHANGED <<peerVars, bindVars, transportVars, pendingQueue, completions,
                 thrown, log>>

\* connection.ondatachannel(event): no handler until answer() installs it.
OnDataChannel ==
  /\ Step
  /\ connection = "bound"
  /\ IF ondatachannel THEN bindChannel ELSE UNCHANGED bindVars
  /\ UNCHANGED <<peerVars, transportVars, busVars, completions, thrown, log>>

\* A success callback that surfaces the description before committing it.
onSuccessSurfacesFirst(r, offer) ==
  LET res == local(codecs, offer)
  IN  IF res.ok
      THEN /\ localDescription' = res.session
           /\ completions' = IF r.fn THEN Append(completions, res.session)
                             ELSE completions
           /\ queue(r.type, res.session)
           /\ Logged((IF r.fn THEN <<[step |-> "fn", req |-> r.id]>>
                      ELSE <<>>)
                     \o <<[step |-> r.type, req |-> r.id],
                          [step |-> "setLocalDescription", req |-> r.id]>>)
           /\ UNCHANGED thrown
      ELSE /\ Throw("success", "StageError")
           /\ UNCHANGED <<localDescription, completions, busVars, log>>

\* A success callback that commits the description as the transport made it
\* and surfaces the transformed one.
onSuccessCommitsRaw(r, offer) ==
  LET res == local(codecs, offer)
  IN  IF res.ok
      THEN /\ localDescription' = offer
           /\ completions' = IF r.fn THEN Append(completions, res.session)
                             ELSE completions
           /\ queue(r.type, res.session)
           /\ Logged(<<[step |-> "setLocalDescription", req |-> r.id]>>
                     \o (IF r.fn THEN <<[step |-> "fn", req |-> r.id]>>
                         ELSE <<>>)
                     \o <<[step |-> r.type, req |-> r.id]>>)
           /\ UNCHANGED thrown
      ELSE /\ Throw("success", "StageError")
           /\ UNCHANGED <<localDescription, completions, busVars, log>>

\* A success callback that commits the transformed description and hands
\* the callback and the event the one the transport made.
onSuccessSurfacesRaw(r, offer) ==
  LET res == local(codecs, offer)
  IN  IF res.ok
      THEN /\ localDescription' = res.session
           /\ completions' = IF r.fn THEN Append(completions, offer)
                             ELSE completions
           /\ queue(r.type, offer)
           /\ Logged(<<[step |-> "setLocalDescription", req |-> r.id]>>
                     \o (IF r.fn THEN <<[step |-> "fn", req |-> r.id]>>
                         ELSE <<>>)
                     \o <<[step |-> r.type, req |-> r.id]>>)
           /\ UNCHANGED thrown
      ELSE /\ Throw("success", "StageError")
           /\ UNCHANGED <<localDescription, completions, busVars, log>>

\* How many stages were registered when request id was made: the codec()
\* calls logged before its createOffer / createAnswer.
StagesAtCall(id) ==
  LET made == CHOOSE j \in 1..Len(log) :
                log[j].req = id /\ log[j].step \in {"create offer", "create answer"}
  IN  Cardinality({i \in 1..made : log[i].step = "codec"})

\* A success callback that runs the stages that were registered when
\* offer() / answer() was called.
onSuccessStagesAtCall(r, offer) ==
  LET res == local(SubSeq(codecs, 1, StagesAtCall(r.id)), offer)
  IN  IF res.ok
      THEN /\ localDescription' = res.session
           /\ completions' = IF r.fn THEN Append(completions, res.session)
                             ELSE completions
           /\ queue(r.type, res.session)
           /\ Logged(<<[step |-> "setLocalDescription", req |-> r.id]>>
                     \o (IF r.fn THEN <<[step |-> "fn", req |-> r.id]>>
                         ELSE <<>>)
                     \o <<[step |-> r.type, req |-> r.id]>>)
           /\ UNCHANGED thrown
      ELSE /\ Throw("success", "StageError")
           /\ UNCHANGED <<localDescription, completions, busVars, log>>

\* The success callback of session(): local(offer); if (fn) fn(offer);
\* that.queue(type, offer).  A stage that raises in local() ends the
\* callback there: nothing catches it.
onSuccess(r, offer) ==
  LET res == local(codecs, offer)
  IN  IF res.ok
      THEN /\ localDescription' = res.session
           /\ completions' = IF r.fn THEN Append(completions, res.session)
                             ELSE completions
           /\ queue(r.type, res.session)
           /\ Logged(<<[step |-> "setLocalDescription", req |-> r.id]>>
                     \o (IF r.fn THEN <<[step |-> "fn", req |-> r.id]>>
                         ELSE <<>>)
                     \o <<[step |-> r.type, req |-> r.id]>>)
           /\ UNCHANGED thrown
      ELSE /\ Throw("success", "StageError")
           /\ UNCHANGED <<localDescription, completions, busVars, log>>

\* An error callback that swallows the cause.
onErrorSwallowed(r, e) ==
  UNCHANGED <<busVars, localDescription, completions, thrown, log>>

\* The error callback of session(): that.emit('error', e).
onError(r, e) ==
  /\ emit("error", e)
  /\ UNCHANGED <<pendingQueue, localDescription, completions, thrown, log>>

\* A transport whose description only arrives once gathering has ended.
SuccessAfterReady(r, sdp) ==
  /\ Step
  /\ r \in pending
  /\ emitted["ready"] # <<>>
  /\ pending' = pending \ {r}
  /\ onSuccess(r, [type |-> r.type, sdp |-> sdp])
  /\ UNCHANGED <<peerVars, bindVars, ondatachannel, dataChannels, requests,
                 remoteDescription, localStreams, remoteCandidates, gathering>>

\* The transport answers request r with a description.
Success(r, sdp) ==
  /\ Step
  /\ r \in pending
  /\ pending' = pending \ {r}
  /\ onSuccess(r, [type |-> r.type, sdp |-> sdp])
  /\ UNCHANGED <<peerVars, bindVars, ondatachannel, dataChannels, requests,
                 remoteDescription, localStreams, remoteCandidates, gathering>>

\* The transport rejects request r with cause e.
Failure(r, e) ==
  /\ Step
  /\ r \in pending
  /\ pending' = pending \ {r}
  /\ onError(r, e)
  /\ UNCHANGED <<peerVars, bindVars, ondatachannel, dataChannels, requests,
                 remoteDescription, localStreams, remoteCandidates, gathering>>

Next ==
  \/ Create
  \/ Stream
  \/ \E c \in IceInputs : Ice(c)
  \/ \E d \in RemoteDescriptions : Remote(d)
  \/ \E fn \in BOOLEAN : Offer(fn)
  \/ \E fn \in BOOLEAN : Answer(fn)
  \/ \E f \in Stages : Codec(f)
  \/ \E m \in Messages : Send(m)
  \/ \E s \in Subs, k \in ObservedKinds : On(s, k)
  \/ \E c \in Candidates \cup {NullCandidate} : OnIceCandidate(c)
  \/ \E ev \in GatheringSignals : OnGatheringChange(ev)
  \/ OnAddStream
  \/ OnDataChannel
  \/ \E r \in pending, sdp \in TransportSdp : Success(r, sdp)
  \/ \E r \in pending, e \in Causes : Failure(r, e)

Spec == Init /\ [][Next]_vars

(***************************************************************************)
(* Histories read off the log.                                             *)
(***************************************************************************)
Requested(type) == \E i \in 1..Len(log) : log[i].step = "create " \o type

\* answer() was called after a remote offer had been applied.
AnsweredRemoteOffer ==
  \E i, j \in 1..Len(log) :
    i < j /\ log[i].step = "remote offer" /\ log[j].step = "create answer"

(***************************************************************************)
(* C1.  On one session, whatever the number and order of null-candidate    *)
(* signals and of gathering-state signals reporting 'complete', 'ready' is *)
(* emitted exactly once: the first trigger emits it, later ones are        *)
(* no-ops.                                                                 *)
(***************************************************************************)
C1_ReadyExactlyOnce == gathering >= 1 => Len(emitted["ready"]) = 1

(***************************************************************************)
(* C2.  The SDP that local() commits is the left fold of the registered    *)
(* stages over the transport's SDP, in registration order: stage i gets    *)
(* the output of stage i-1.                                                *)
(***************************************************************************)
RECURSIVE LeftFold(_, _)
LeftFold(stages, text) ==
  IF stages = <<>> THEN text
  ELSE ApplyStage(stages[Len(stages)],
                  LeftFold(SubSeq(stages, 1, Len(stages) - 1), text))

\* No stage raises on the text the stages before it produce.
FoldDefined(stages, text) ==
  \A i \in 1..Len(stages) :
    ~Raises(stages[i], LeftFold(SubSeq(stages, 1, i - 1), text))

C2_LocalIsLeftFold ==
  [][\A r \in pending, text \in TransportSdp :
       Success(r, text) /\ FoldDefined(codecs, text)
         => localDescription' = [type |-> r.type, sdp |-> LeftFold(codecs, text)]]_vars

\* preferCodecOpus(addBandwidthCap("m=audio")) has been committed.
C2_Witness ==
  /\ codecs = <<"addBandwidthCap", "preferCodecOpus">>
  /\ localDescription.sdp = <<"opus", "b=AS", "m=audio">>

(***************************************************************************)
(* C3.  offer() then answer(), or answer() then offer(): the second call   *)
(* raises a RoleConflict usage error and changes nothing: no description   *)
(* is requested, no data channel is created, no channel handler is         *)
(* installed and no 'before offer' / 'before answer' is emitted.           *)
(***************************************************************************)
C3_RoleConflictOnOtherRole ==
  [][\A fn \in BOOLEAN :
       \/ Answer(fn) /\ connection = "bound" /\ Requested("offer")
       \/ Offer(fn) /\ connection = "bound" /\ Requested("answer")
       => /\ thrown' = Append(thrown, [op |-> IF Requested("offer")
                                               THEN "answer" ELSE "offer",
                                        err |-> "RoleConflict"])
          /\ UNCHANGED <<pending, requests, dataChannels, bindings, channel,
                         ondatachannel, emitted>>]_vars

(***************************************************************************)
(* C4.  A second offer() (and likewise a second answer()) on the session   *)
(* is signalled to the caller as a usage error: it creates no second data  *)
(* channel and no second binding and requests no second description.       *)
(***************************************************************************)
C4_SecondCallIsUsageError ==
  [][\A fn \in BOOLEAN :
       \/ Offer(fn) /\ connection = "bound" /\ Requested("offer")
       \/ Answer(fn) /\ connection = "bound" /\ Requested("answer")
       => /\ Len(thrown') = Len(thrown) + 1
          /\ UNCHANGED <<pending, requests, dataChannels, bindings, channel>>]_vars

(***************************************************************************)
(* C5.  On a responder (answer() called after a remote offer was applied,  *)
(* offer() never called) any number of remote channel notifications gives  *)
(* one binding: a repeated notification neither adds nor replaces one.     *)
(***************************************************************************)
C5_OneBindingPerResponder ==
  AnsweredRemoteOffer /\ ~Requested("offer") => bindings <= 1 /\ channel <= 1

(***************************************************************************)
(* C6.  For each queued kind, an observer that subscribes after            *)
(* occurrences of the kind have happened is called, by that subscription,  *)
(* with every one of them, in the order they occurred, each once.          *)
(***************************************************************************)
C6_LateSubscriberGetsBacklog ==
  [][\A s \in Subs, k \in QueuedKinds :
       On(s, k) => received'[s] = emitted[k] /\ replayed'[s] = Len(emitted[k])]_vars

\* An observer subscribed to 'local stream' after two streams were added,
\* and was called with both.
C6_Witness ==
  \E s \in Subs :
    /\ subscribed[s] = "local stream"
    /\ replayed[s] = 2
    /\ received[s] = <<"stream", "stream">>

(***************************************************************************)
(* C7.  The backlog of a queued kind is replayed to every late observer,   *)
(* not only to the first, and an occurrence delivered live to an attached  *)
(* observer is still replayed to one that subscribes later: two observers  *)
(* of one queued kind have both been called with every occurrence, once.   *)
(***************************************************************************)
C7_EveryObserverGetsEveryOccurrence ==
  \A s, t \in Subs :
    subscribed[s] \in QueuedKinds /\ subscribed[t] = subscribed[s]
      => received[s] = emitted[subscribed[s]] /\ received[t] = received[s]

\* The first observer got 'ready' live, the second got it by replay.
C7_Witness ==
  /\ subscribed["s1"] = "ready" /\ subscribed["s2"] = "ready"
  /\ replayed["s1"] = 0 /\ replayed["s2"] = 1
  /\ received["s1"] = <<NoArg>> /\ received["s2"] = <<NoArg>>

(***************************************************************************)
(* C8.  When the transport rejects a createOffer / createAnswer request    *)
(* with cause e, one 'error' event carrying e is emitted and nothing else  *)
(* changes: no local description, no completion callback, no event queued. *)
(***************************************************************************)
C8_RejectionOnlyEmitsError ==
  [][\A r \in pending, e \in Causes :
       Failure(r, e)
         => /\ emitted' = [emitted EXCEPT !["error"] = Append(@, e)]
            /\ UNCHANGED <<localDescription, completions, pendingQueue, thrown,
                           log, codecs, connection, bindVars, requests>>]_vars

\* A rejection has happened and nothing was committed or surfaced.
C8_Witness ==
  /\ Len(emitted["error"]) = 1
  /\ requests = 1 /\ pending = {}
  /\ localDescription = NoDescription /\ completions = <<>>

(***************************************************************************)
(* C9.  When a stage raises while a fresh description is applied, the      *)
(* failure is an 'error' event like a negotiation failure, not a fault     *)
(* thrown out of the success callback; nothing is committed or surfaced.   *)
(***************************************************************************)
C9_StageFailureIsErrorEvent ==
  [][\A r \in pending, text \in TransportSdp :
       Success(r, text) /\ ~FoldDefined(codecs, text)
         => /\ Len(emitted'["error"]) = Len(emitted["error"]) + 1
            /\ UNCHANGED <<thrown, localDescription, completions, pendingQueue>>]_vars

(***************************************************************************)
(* C10.  offer() or answer() before create() has bound the transport is    *)
(* surfaced as an 'error' event, never as a fault thrown to the caller.    *)
(***************************************************************************)
C10_UnboundCallIsErrorEvent ==
  [][\A fn \in BOOLEAN :
       (Offer(fn) \/ Answer(fn)) /\ connection = "null"
         => /\ Len(emitted'["error"]) = Len(emitted["error"]) + 1
            /\ UNCHANGED thrown]_vars

(***************************************************************************)
(* C11.  A message sent while no channel is bound is neither lost nor      *)
(* rejected: it is queued, and a channel, once bound, is written every     *)
(* message sent so far, in send order, each once.                          *)
(***************************************************************************)
\* The messages written to the channel of binding b, in order.
WrittenTo(b) ==
  LET mine == SelectSeq(delivered, LAMBDA d : d.ch = b)
  IN  [i \in 1..Len(mine) |-> mine[i].msg]

C12_ReadyOnlyAfterGatheringEnds == Len(emitted["ready"]) <= gathering

\* A candidate was relayed without a 'ready'; the end-of-gathering signal
\* that followed or preceded it gave the one 'ready'.
C12_Witness ==
  /\ Len(emitted["candidate"]) = 2
  /\ gathering = 1
  /\ Len(emitted["ready"]) = 1

(***************************************************************************)
(* C13.  Every description committed as the local description, offer or    *)
(* answer, carries the transport's SDP run through all the stages          *)
(* registered at that moment; an untransformed one is never committed.     *)
(***************************************************************************)
\* This step logged the given negotiation step.
NowLogged(step) ==
  \E i \in (Len(log) + 1)..Len(log') : log'[i].step = step

C13_EveryCommitIsTransformed ==
  [][NowLogged("setLocalDescription")
       => \E r \in pending, text \in TransportSdp :
            /\ FoldDefined(codecs, text)
            /\ localDescription' = [type |-> r.type,
                                    sdp |-> LeftFold(codecs, text)]]_vars

\* An answer was committed with the bandwidth cap applied.
C13_Witness ==
  /\ codecs = <<"addBandwidthCap">>
  /\ localDescription = [type |-> "answer", sdp |-> <<"b=AS", "m=audio">>]

(***************************************************************************)
(* C14.  For each offer() / answer() the steps come in this order:         *)
(* 'before offer' / 'before answer' is emitted, the description is         *)
(* requested, the transformed description is committed locally, the        *)
(* caller's callback (if given) is invoked, the 'offer' / 'answer' event   *)
(* is queued; the callback and the event never precede the commit.         *)
(***************************************************************************)
Rank(step) ==
  CASE step \in {"before offer", "before answer"} -> 1
    [] step \in {"create offer", "create answer"} -> 2
    [] step = "setLocalDescription" -> 3
    [] step = "fn" -> 4
    [] step \in {"offer", "answer"} -> 5
    [] OTHER -> 0

\* Entry j of the log has an entry of rank n of the same request before it.
Preceded(j, n) ==
  \E i \in 1..(j - 1) : log[i].req = log[j].req /\ Rank(log[i].step) = n

C14_NegotiationOrder ==
  /\ \A i, j \in 1..Len(log) :
       i < j /\ log[i].req = log[j].req /\ log[i].req > 0
         => Rank(log[i].step) < Rank(log[j].step)
            \/ Rank(log[i].step) = 0
  /\ \A j \in 1..Len(log) :
       /\ Rank(log[j].step) = 2 => Preceded(j, 1)
       /\ Rank(log[j].step) = 3 => Preceded(j, 2)
       /\ Rank(log[j].step) \in {4, 5} => Preceded(j, 3)

\* An offer with a callback ran to its end.
C14_Witness ==
  /\ Len(log) = 7
  /\ [i \in 1..7 |-> log[i].step] =
       <<"createDataChannel", "channel", "before offer", "create offer",
         "setLocalDescription", "fn", "offer">>

(***************************************************************************)
(* C15.  On an initiator the data channel is created and bound inside      *)
(* offer() before the offer is requested: createDataChannel precedes       *)
(* createOffer for that call.  answer() never calls createDataChannel.     *)
(***************************************************************************)
C15_ChannelBeforeOffer ==
  /\ \A j \in 1..Len(log) :
       log[j].step = "create offer"
         => \E i, k \in 1..(j - 1) :
              /\ i < k
              /\ log[i].req = log[j].req /\ log[i].step = "createDataChannel"
              /\ log[k].req = log[j].req /\ log[k].step = "channel"
  /\ \A i \in 1..Len(log) :
       log[i].step = "createDataChannel"
         => \E j \in 1..Len(log) :
              log[j].req = log[i].req /\ log[j].step = "create offer"
  /\ dataChannels = Cardinality({j \in 1..Len(log) : log[j].step = "create offer"})

\* An offer() and an answer() were both called; one data channel was made.
C15_Witness ==
  /\ Requested("offer") /\ Requested("answer")
  /\ dataChannels = 1

(***************************************************************************)
(* C16.  Every candidate signal with a non-null candidate gives one        *)
(* 'candidate' event carrying it, emitted in the same callback and never   *)
(* buffered: n signals give n events in the same order, duplicates         *)
(* included, whether or not 'ready' has fired.                             *)
(***************************************************************************)
C16_CandidateRelayedAtOnce ==
  [][\A c \in Candidates :
       OnIceCandidate(c)
         => /\ emitted' = [emitted EXCEPT !["candidate"] = Append(@, c)]
            /\ pendingQueue' = pendingQueue
            /\ \A s \in Subs :
                 subscribed[s] = "candidate" => received'[s] = Append(received[s], c)]_vars

\* The same candidate was announced twice, around or after a 'ready', and
\* an attached observer was called both times.
C16_Witness ==
  /\ emitted["candidate"] = <<"c2", "c2">>
  /\ Len(emitted["ready"]) = 1
  /\ subscribed["s1"] = "candidate" /\ received["s1"] = <<"c2", "c2">>

(***************************************************************************)
(* C17.  remote(description) on a bound connection commits the received    *)
(* description as the remote description with its SDP as received,         *)
(* whatever stages are registered: no stage runs, the local description    *)
(* stays as it was and no event is emitted.                                *)
(***************************************************************************)
C17_RemoteCommitsAsReceived ==
  [][\A d \in RemoteDescriptions :
       Remote(d) /\ connection = "bound"
         => /\ remoteDescription' = d
            /\ UNCHANGED <<localDescription, codecs, emitted, pendingQueue,
                           received, completions, thrown>>]_vars

\* A stage that would change the received SDP was registered before the
\* remote offer was applied, and the offer was committed as received.
C17_Witness ==
  /\ codecs # <<>>
  /\ \E d \in RemoteDescriptions :
       /\ remoteDescription = d
       /\ FoldDefined(codecs, d.sdp) /\ LeftFold(codecs, d.sdp) # d.sdp
  /\ \E i, j \in 1..Len(log) :
       i < j /\ log[i].step = "codec" /\ log[j].step = "remote offer"

(***************************************************************************)
(* C18.  'ready' and 'offer' / 'answer' come in no fixed order and neither *)
(* waits for the other: while a request is outstanding its description can *)
(* arrive, and the event be queued, whether or not 'ready' was emitted;    *)
(* on a bound connection the end of gathering can be reported, and 'ready' *)
(* be queued, whether or not a description was surfaced.                   *)
(***************************************************************************)
Surfaced == Len(emitted["offer"]) + Len(emitted["answer"])

C18_ReadyAndDescriptionIndependent ==
  /\ \A r \in pending, sdp \in TransportSdp :
       (steps < MaxSteps /\ FoldDefined(codecs, sdp))
         => ENABLED (/\ Success(r, sdp)
                     /\ Len(emitted'[r.type]) = Len(emitted[r.type]) + 1
                     /\ emitted'["ready"] = emitted["ready"])
  /\ (connection = "bound" /\ steps < MaxSteps)
       => ENABLED (/\ OnIceCandidate(NullCandidate)
                   /\ Len(emitted'["ready"]) = Len(emitted["ready"]) + 1
                   /\ emitted'["offer"] = emitted["offer"]
                   /\ emitted'["answer"] = emitted["answer"])

\* An offer was surfaced on a connection that has not reported 'ready', and
\* the end of gathering can still be reported.
C18_DescriptionFirst ==
  /\ emitted["offer"] # <<>> /\ emitted["ready"] = <<>>
  /\ connection = "bound" /\ steps < MaxSteps

\* 'ready' was emitted while an offer was outstanding and nothing had been
\* surfaced, and the offer can still arrive.
C18_Witness ==
  /\ emitted["ready"] # <<>> /\ Surfaced = 0
  /\ \E r \in pending : r.type = "offer"
  /\ steps < MaxSteps

(***************************************************************************)
(* C19.  The description given to the caller's callback and carried by     *)
(* the 'offer' / 'answer' event is the one committed locally: all three    *)
(* have the SDP the stages produced, not the SDP the transport made.       *)
(***************************************************************************)
C19_SurfacedIsCommitted ==
  [][\A r \in pending, text \in TransportSdp :
       Success(r, text) /\ FoldDefined(codecs, text)
         => /\ localDescription'.sdp = LeftFold(codecs, text)
            /\ emitted'[r.type] = Append(emitted[r.type], localDescription')
            /\ pendingQueue'[r.type] =
                 Append(pendingQueue[r.type], localDescription')
            /\ completions' = IF r.fn THEN Append(completions, localDescription')
                              ELSE completions]_vars

\* An answer the stages changed was committed; the callback and the event
\* got the changed one.
C19_Witness ==
  /\ codecs # <<>>
  /\ localDescription.type = "answer"
  /\ localDescription.sdp \notin TransportSdp
  /\ completions = <<localDescription>>
  /\ emitted["answer"] = <<localDescription>>

(***************************************************************************)
(* C20.  The stages are read when the description is applied, not when     *)
(* offer() / answer() is called: a stage registered after the call and     *)
(* before the success callback runs is applied to that description.  In    *)
(* every step the stage list stays as it is or grows by one stage at its   *)
(* end: no stage is removed or moved.                                      *)
(***************************************************************************)
C20_StagesReadWhenApplied ==
  [][/\ \A r \in pending, text \in TransportSdp :
          (/\ Success(r, text)
           /\ StagesAtCall(r.id) < Len(codecs)
           /\ FoldDefined(codecs, text))
            => localDescription' = [type |-> r.type,
                                    sdp |-> LeftFold(codecs, text)]
     /\ \/ codecs' = codecs
        \/ \E f \in Stages : codecs' = Append(codecs, f)]_vars

\* offer() was called with no stage registered, a stage that changes the
\* SDP was registered while the request was outstanding, and the offer was
\* committed with that stage applied.
C20_Witness ==
  /\ \E i, j, k \in 1..Len(log) :
       /\ i < j /\ j < k
       /\ log[i].step = "create offer"
       /\ log[j].step = "codec"
       /\ log[k].step = "setLocalDescription" /\ log[k].req = log[i].req
       /\ StagesAtCall(log[i].req) = 0
  /\ Len(codecs) = 1
  /\ localDescription.type = "offer"
  /\ localDescription.sdp \notin TransportSdp
====
